---- MODULE Spec2Model ----
(***************************************************************************)
(* Studio Lumi booking API (app.py): the bookings table, the calendar-file *)
(* directory and the handlers /slots, /book, /cancel and /bookings.        *)
(*                                                                         *)
(* Texts that the code parses or formats (slot ranges) are sequences of    *)
(* one-character strings; "EN" and "EM" stand for the en dash (U+2013) and *)
(* the em dash (U+2014).  Add-on names are transliterated.  A key that is  *)
(* absent from a payload (None) and an empty string take the same branch   *)
(* of every truthiness test in the code and are both written "" (<<>> for  *)
(* a slot text).  Column created_at is never read by any handler and is    *)
(* left out of the rows.                                                   *)
(***************************************************************************)
EXTENDS Integers, Sequences, FiniteSets, TLC

VARIABLES bookings,   \* rows of table bookings
          files,      \* booking ids that have a calendar file in ICS_DIR
          resp,       \* the response of the last handled request
          pc,         \* per worker thread: position inside book()
          loc,        \* per worker thread: local variables of book()
          arg,        \* argument of a function that is exercised on its own
          ret         \* its result

vars == <<bookings, files, resp, pc, loc, arg, ret>>

----------------------------------------------------------------------------
(* Constants of app.py *)

WORK_START == 540
WORK_END == 1260
SLOT_DUR == 60
BUFFER == 15

\* (id, title, base_price, weekend_coef in hundredths)
HALLS_SEED ==
  { [id |-> "A", title |-> "Daylight",  base_price |-> 10000, weekend_coef |-> 110],
    [id |-> "B", title |-> "Loft",      base_price |-> 12000, weekend_coef |-> 115],
    [id |-> "C", title |-> "Cyclorama", base_price |-> 15000, weekend_coef |-> 120] }

ADDONS_NAMES == {"Nabor svet A", "Fon belyi", "Stoyki"}

ADDONS_PRICE ==
  [n \in ADDONS_NAMES |->
     CASE n = "Nabor svet A" -> 3000
       [] n = "Fon belyi"    -> 1500
       [] n = "Stoyki"       -> 1000]

----------------------------------------------------------------------------
(* Worker threads of the server *)

Threads == {"t1", "t2"}

----------------------------------------------------------------------------
(* Text helpers *)

Digits == <<"0", "1", "2", "3", "4", "5", "6", "7", "8", "9">>

IsDigit(c) == \E i \in 1..10 : Digits[i] = c

DigitVal(c) == (CHOOSE i \in 1..10 : Digits[i] = c) - 1

\* str.replace(old, new) for one-character old and new
Replace(s, old, new) == [i \in 1..Len(s) |-> IF s[i] = old THEN new ELSE s[i]]

\* index of the first occurrence of sep in s, 0 when there is none
RECURSIVE FindFrom(_, _, _)
FindFrom(s, sep, i) ==
  IF i > Len(s) THEN 0
  ELSE IF s[i] = sep THEN i
  ELSE FindFrom(s, sep, i + 1)

\* str.split(sep): the sequence of fields
RECURSIVE Split(_, _)
Split(s, sep) ==
  LET k == FindFrom(s, sep, 1)
  IN IF k = 0 THEN <<s>>
     ELSE <<SubSeq(s, 1, k - 1)>> \o Split(SubSeq(s, k + 1, Len(s)), sep)

\* str.strip(): drop leading and trailing blanks
RECURSIVE Strip(_)
Strip(s) ==
  IF s = <<>> THEN s
  ELSE IF Head(s) = " " THEN Strip(Tail(s))
  ELSE IF s[Len(s)] = " " THEN Strip(SubSeq(s, 1, Len(s) - 1))
  ELSE s

\* int(text) for unsigned decimal text, blanks around it allowed;
\* ok = FALSE stands for ValueError.  Signs and underscores, which int()
\* also reads, occur in no slot text used here.
RECURSIVE DecVal(_)
DecVal(s) == IF s = <<>> THEN 0 ELSE 10 * DecVal(SubSeq(s, 1, Len(s) - 1)) + DigitVal(s[Len(s)])

ParseInt(text) ==
  LET s == Strip(text)
  IN IF s # <<>> /\ \A i \in 1..Len(s) : IsDigit(s[i])
     THEN [ok |-> TRUE, v |-> DecVal(s)]
     ELSE [ok |-> FALSE, v |-> 0]

\* f"{n:02d}" for n >= 0
RECURSIVE DecText(_)
DecText(n) == IF n < 10 THEN <<Digits[n + 1]>> ELSE DecText(n \div 10) \o <<Digits[(n % 10) + 1]>>

Z2(n) == IF n < 10 THEN <<"0">> \o DecText(n) ELSE DecText(n)

\* the same format as a string, for identifiers
Z2Str(n) == IF n < 10 THEN "0" \o ToString(n) ELSE ToString(n)

----------------------------------------------------------------------------
(* Time grid *)

time_to_min(hhmm) ==
  LET parts == Split(hhmm, ":")
  IN IF Len(parts) # 2 THEN [ok |-> FALSE, v |-> 0]
     ELSE LET h == ParseInt(parts[1])
              m == ParseInt(parts[2])
          IN IF h.ok /\ m.ok THEN [ok |-> TRUE, v |-> h.v * 60 + m.v]
             ELSE [ok |-> FALSE, v |-> 0]

\* parse_slot that does not know the en dash
parse_slot_NoEnDash(slot) ==
  LET s == Replace(slot, "EM", "-")
      start == Strip(Split(s, "-")[1])
  IN time_to_min(start)

parse_slot(slot) ==
  LET s == Replace(Replace(slot, "EM", "-"), "EN", "-")
      start == Strip(Split(s, "-")[1])
  IN time_to_min(start)

min_to_range(start_min, dur) ==
  LET end == start_min + dur
      h1 == start_min \div 60
      m1 == start_min % 60
      h2 == end \div 60
      m2 == end % 60
  IN Z2(h1) \o <<":">> \o Z2(m1) \o <<"EN">> \o Z2(h2) \o <<":">> \o Z2(m2)

\* map(int, date_iso.split("-")) on the dates of the model
DateYMD(date_iso) ==
  CASE date_iso = "2024-06-01" -> <<2024, 6, 1>>
    [] date_iso = "2024-06-02" -> <<2024, 6, 2>>
    [] date_iso = "2024-06-03" -> <<2024, 6, 3>>
    [] date_iso = "2024-06-07" -> <<2024, 6, 7>>

\* datetime(y, m, d).isoweekday(): 1 = Monday .. 7 = Sunday
IsoWeekday(y, m, d) ==
  LET t == <<0, 3, 2, 5, 0, 3, 5, 1, 4, 6, 2, 4>>
      yy == IF m < 3 THEN y - 1 ELSE y
      dow == (yy + (yy \div 4) - (yy \div 100) + (yy \div 400) + t[m] + d) % 7
  IN IF dow = 0 THEN 7 ELSE dow

is_weekend(date_iso) ==
  LET ymd == DateYMD(date_iso)
  IN IsoWeekday(ymd[1], ymd[2], ymd[3]) \in {6, 7}

----------------------------------------------------------------------------
(* Pricing *)

\* round(n / d) of Python 3: to nearest, ties to even.  The code rounds the
\* float product base_price * weekend_coef (and price * 1.3); for the seeded
\* halls the exact product is a whole number and the float is within 1e-11
\* of it, so the float and the exact quotient round alike.
Round(n, d) ==
  LET q == n \div d
      r == n % d
  IN IF 2 * r < d THEN q
     ELSE IF 2 * r > d THEN q + 1
     ELSE IF q % 2 = 0 THEN q ELSE q + 1

RECURSIVE SumPrices(_)
SumPrices(addons) == IF addons = <<>> THEN 0 ELSE Head(addons).price + SumPrices(Tail(addons))

\* surcharges added up on the base price instead of compounded
calc_price_Additive(hall, date_iso, start_min, addons) ==
  LET p0 == hall.base_price
      w == IF is_weekend(date_iso) THEN Round(p0 * hall.weekend_coef, 100) - p0 ELSE 0
      t == IF 17 <= (start_min \div 60) /\ (start_min \div 60) < 21
           THEN Round(p0 * 13, 10) - p0 ELSE 0
  IN p0 + w + t + SumPrices(addons)

calc_price(hall, date_iso, start_min, addons) ==
  LET p0 == hall.base_price
      p1 == IF is_weekend(date_iso) THEN Round(p0 * hall.weekend_coef, 100) ELSE p0
      p2 == IF 17 <= (start_min \div 60) /\ (start_min \div 60) < 21
            THEN Round(p1 * 13, 10) ELSE p1
  IN p2 + SumPrices(addons)

----------------------------------------------------------------------------
(* Store: tables halls and bookings *)

halls == HALLS_SEED

\* SELECT * FROM halls WHERE id=?   (the set of matching rows)
SelectHall(hall_id) == {h \in halls : h.id = hall_id}

\* the conflict query without its status filter
SelectConflict_AnyStatus(db, hall_id, date, start_min, end_min) ==
  {b \in db : /\ b.hall_id = hall_id
              /\ b.date = date
              /\ ~(end_min + BUFFER <= b.start_min \/ start_min >= b.end_min + BUFFER)}

\* SELECT 1 FROM bookings WHERE hall_id=? AND date=? AND status='confirmed'
\*   AND NOT (end_min + BUFFER <= start_min OR start_min >= end_min + BUFFER)
SelectConflict(db, hall_id, date, start_min, end_min) ==
  {b \in db : /\ b.hall_id = hall_id
              /\ b.date = date
              /\ b.status = "confirmed"
              /\ ~(end_min + BUFFER <= b.start_min \/ start_min >= b.end_min + BUFFER)}

\* INSERT OR REPLACE: a row with the same key is replaced
InsertBooking_Replace(db, row) ==
  [ok |-> TRUE, db |-> {b \in db : b.booking_id # row.booking_id} \cup {row}]

\* INSERT INTO bookings ... : booking_id is the PRIMARY KEY, a second row
\* with the same key raises sqlite3.IntegrityError and inserts nothing
InsertBooking(db, row) ==
  IF \E b \in db : b.booking_id = row.booking_id
  THEN [ok |-> FALSE, db |-> db]
  ELSE [ok |-> TRUE, db |-> db \cup {row}]

\* the UPDATE without its WHERE clause
UpdateCanceled_NoWhere(db, booking_id) ==
  {[b EXCEPT !.status = "canceled"] : b \in db}

\* UPDATE bookings SET status='canceled' WHERE booking_id=?
UpdateCanceled(db, booking_id) ==
  {IF b.booking_id = booking_id THEN [b EXCEPT !.status = "canceled"] ELSE b : b \in db}

\* the busy query without its status filter
SelectBusy_AnyStatus(db, hall_id, date) ==
  {<<b.start_min, b.end_min>> : b \in {x \in db : x.hall_id = hall_id /\ x.date = date}}

\* SELECT start_min,end_min FROM bookings WHERE hall_id=? AND date=? AND status='confirmed'
SelectBusy(db, hall_id, date) ==
  {<<b.start_min, b.end_min>> : b \in {x \in db : x.hall_id = hall_id /\ x.date = date /\ x.status = "confirmed"}}

\* SELECT ... FROM bookings WHERE phone=? AND status='confirmed'
SelectPhone(db, phone) == {b \in db : b.phone = phone /\ b.status = "confirmed"}

\* TEXT comparison of two ISO dates (zero-padded, so text order is date order)
DateKey(date_iso) ==
  LET ymd == DateYMD(date_iso) IN ymd[1] * 10000 + ymd[2] * 100 + ymd[3]

\* ORDER BY start_min alone
OrderLeq_StartOnly(a, b) == a.start_min <= b.start_min

\* ORDER BY date,start_min
OrderLeq(a, b) ==
  \/ DateKey(a.date) < DateKey(b.date)
  \/ a.date = b.date /\ a.start_min <= b.start_min

\* the row orders ORDER BY date,start_min allows (rows that tie on both
\* columns come in an order SQLite does not fix)
OrderedBy(rows) ==
  {s \in [1..Cardinality(rows) -> rows] :
     /\ \A i, j \in 1..Cardinality(rows) : i # j => s[i] # s[j]
     /\ \A i, j \in 1..Cardinality(rows) : i < j => OrderLeq(s[i], s[j])}

----------------------------------------------------------------------------
(* Availability: the loop of slots() *)

\* the conflict test without the buffer
SlotConflict_NoBuffer(start, busy) ==
  LET end == start + SLOT_DUR
  IN \E iv \in busy : ~(end <= iv[1] \/ start >= iv[2])

\* the conflict test with the buffer after a busy interval only
SlotConflict_BufferAfter(start, busy) ==
  LET end == start + SLOT_DUR
  IN \E iv \in busy : ~(end <= iv[1] \/ start >= iv[2] + BUFFER)

SlotConflict(start, busy) ==
  LET end == start + SLOT_DUR
  IN \E iv \in busy : ~(end + BUFFER <= iv[1] \/ start >= iv[2] + BUFFER)

RECURSIVE SlotLoop(_, _)
SlotLoop(start, busy) ==
  IF start + SLOT_DUR <= WORK_END
  THEN (IF SlotConflict(start, busy) THEN <<>> ELSE <<min_to_range(start, SLOT_DUR)>>)
       \o SlotLoop(start + SLOT_DUR, busy)
  ELSE <<>>

compute_slots(busy) == SlotLoop(WORK_START, busy)

----------------------------------------------------------------------------
(* Requests the clients send *)

HallIds == {"A", "B"}
Dates == {"2024-06-01", "2024-06-03"}      \* a Saturday and a Monday

\* the customers: name, phone and the add-ons they order
Customers ==
  { [name |-> "Ann", phone |-> "+7001", addons |-> <<>>],
    [name |-> "",    phone |-> "+7002", addons |-> <<"Stoyki", "Flash">>] }

Phones == {c.phone : c \in Customers}

T1000 == <<"1", "0", ":", "0", "0", "EN", "1", "1", ":", "0", "0">>
T1100 == <<"1", "1", ":", "0", "0", "-", "1", "3", ":", "0", "0">>
T1030 == <<"1", "0", ":", "3", "0", "EM", "1", "1", ":", "3", "0">>
T1115 == <<" ", "1", "1", ":", "1", "5", " ">>
TBad  == <<"1", "0", "-", "1", "1">>

SlotTexts == {T1000, T1100, T1030, T1115}

\* parse_slot on the slot texts of the model, computed once
SlotStart == [s \in SlotTexts \cup {TBad} |-> parse_slot(s)]

Payload(h, d, s, n, ph, a) ==
  [hall_id |-> h, date |-> d, slot |-> s, name |-> n, phone |-> ph, addons |-> a]

Ann == CHOOSE c \in Customers : c.phone = "+7001"
Bob == CHOOSE c \in Customers : c.phone = "+7002"

\* every slot text by every customer for hall A on the Saturday, and one
\* booking each for another hall and for another date
ValidPayloads ==
  {Payload("A", "2024-06-01", s, c.name, c.phone, c.addons) : s \in SlotTexts, c \in Customers}
    \cup { Payload("B", "2024-06-01", T1000, Bob.name, Bob.phone, Bob.addons),
           Payload("A", "2024-06-03", T1000, Ann.name, Ann.phone, Ann.addons) }

InvalidPayloads ==
  { Payload("",  "2024-06-01", T1000, "Ann", "+7001", <<>>),
    Payload("A", "",           T1000, "Ann", "+7001", <<>>),
    Payload("A", "2024-06-01", <<>>,  "Ann", "+7001", <<>>),
    Payload("A", "2024-06-01", T1000, "Ann", "",      <<>>),
    Payload("Z", "2024-06-01", T1000, "Ann", "+7001", <<>>),
    Payload("A", "2024-06-01", TBad,  "Ann", "+7001", <<>>) }

BookPayloads == ValidPayloads \cup InvalidPayloads

\* an identifier that keeps the minutes of the start
BookingId_WithMinutes(date, hall_id, start_min) ==
  "BK-" \o date \o "-" \o hall_id \o "-" \o Z2Str(start_min \div 60) \o Z2Str(start_min % 60)

BookingId(date, hall_id, start_min) ==
  "BK-" \o date \o "-" \o hall_id \o "-" \o Z2Str(start_min \div 60) \o "00"

CancelIds ==
  {BookingId(p.date, p.hall_id, SlotStart[p.slot].v) : p \in ValidPayloads}
    \cup {"BK-2024-06-01-A-0900", ""}

SlotQueries ==
  {<<h, d>> : h \in HallIds, d \in Dates} \cup {<<"", "2024-06-01">>, <<"A", "">>}

PhoneQueries == Phones \cup {"+7009"}

----------------------------------------------------------------------------
(* Responses *)

Ok(op, body) == [op |-> op, code |-> 200, detail |-> "", body |-> body]
Err(op, code, detail) == [op |-> op, code |-> code, detail |-> detail, body |-> <<>>]

----------------------------------------------------------------------------
(* book(payload) *)

\* [{"name": n, "price": ADDONS_PRICE.get(n, 0)} for n in addons_names]
AddonsD(addons_names) ==
  [i \in 1..Len(addons_names) |->
     [name |-> addons_names[i],
      price |-> IF addons_names[i] \in DOMAIN ADDONS_PRICE
                THEN ADDONS_PRICE[addons_names[i]] ELSE 0]]

\* the presence test without the phone
Required_NoPhone(p) == p.hall_id # "" /\ p.date # "" /\ p.slot # <<>>

Required(p) == p.hall_id # "" /\ p.date # "" /\ p.slot # <<>> /\ p.phone # ""

\* the end taken from the slot text when it names one
EndMin_FromText(slot, start_min) ==
  LET parts == Split(Replace(Replace(slot, "EM", "-"), "EN", "-"), "-")
  IN IF Len(parts) >= 2 /\ time_to_min(Strip(parts[2])).ok
     THEN time_to_min(Strip(parts[2])).v
     ELSE start_min + SLOT_DUR

\* end_min = start_min + SLOT_DUR
EndMin(slot, start_min) == start_min + SLOT_DUR

\* the row book() inserts for payload p and the hall row it loaded
NewRow(p, hall, start_min, end_min) ==
  LET addons_d == AddonsD(p.addons)
  IN [booking_id |-> BookingId(p.date, p.hall_id, start_min),
      hall_id |-> p.hall_id, date |-> p.date,
      start_min |-> start_min, end_min |-> end_min,
      name |-> p.name, phone |-> p.phone, addons |-> addons_d,
      price |-> calc_price(hall, p.date, start_min, addons_d),
      status |-> "confirmed"]

\* make_ics: icsOk = FALSE is an OSError of open() or write()
make_ics(fs, booking_id, icsOk) == IF icsOk THEN fs \cup {booking_id} ELSE fs

\* First part of book(), up to the conflict SELECT: the response when the
\* request ends here (done), else the locals start_min and end_min
book_check(db, p) ==
  IF ~Required(p)
  THEN [done |-> TRUE, resp |-> Err("book", 400, "hall_id, date, slot, phone required"),
        start_min |-> 0, end_min |-> 0]
  ELSE IF ~SlotStart[p.slot].ok
  THEN [done |-> TRUE, resp |-> Err("book", 500, "ValueError"), start_min |-> 0, end_min |-> 0]
  ELSE IF SelectConflict(db, p.hall_id, p.date, SlotStart[p.slot].v,
                         EndMin(p.slot, SlotStart[p.slot].v)) # {}
  THEN [done |-> TRUE, resp |-> Err("book", 409, "Slot not available"),
        start_min |-> 0, end_min |-> 0]
  ELSE [done |-> FALSE, resp |-> Err("book", 0, ""),
        start_min |-> SlotStart[p.slot].v, end_min |-> EndMin(p.slot, SlotStart[p.slot].v)]

\* a second part that undoes the INSERT when the calendar file fails
book_write_Rollback(db, fs, p, start_min, end_min, icsOk) ==
  IF SelectHall(p.hall_id) = {}
  THEN [db |-> db, fs |-> fs, resp |-> Err("book", 400, "Unknown hall")]
  ELSE
  LET hall == CHOOSE h \in SelectHall(p.hall_id) : TRUE
      row == NewRow(p, hall, start_min, end_min)
      ins == InsertBooking(db, row)
  IN
  IF ~ins.ok
  THEN [db |-> db, fs |-> fs, resp |-> Err("book", 500, "IntegrityError")]
  ELSE IF ~icsOk
  THEN [db |-> db, fs |-> fs, resp |-> Err("book", 500, "OSError")]
  ELSE [db |-> ins.db, fs |-> make_ics(fs, row.booking_id, icsOk),
        resp |-> Ok("book", [booking_id |-> row.booking_id, price |-> row.price,
                             status |-> "confirmed",
                             ics_url |-> "/ics/" \o row.booking_id \o ".ics"])]

\* Second part of book(): hall lookup, price, INSERT and commit, calendar file
book_write(db, fs, p, start_min, end_min, icsOk) ==
  IF SelectHall(p.hall_id) = {}
  THEN [db |-> db, fs |-> fs, resp |-> Err("book", 400, "Unknown hall")]
  ELSE
  LET hall == CHOOSE h \in SelectHall(p.hall_id) : TRUE
      row == NewRow(p, hall, start_min, end_min)
      ins == InsertBooking(db, row)
  IN
  IF ~ins.ok
  THEN [db |-> db, fs |-> fs, resp |-> Err("book", 500, "IntegrityError")]
  ELSE IF ~icsOk
  THEN [db |-> ins.db, fs |-> fs, resp |-> Err("book", 500, "OSError")]
  ELSE [db |-> ins.db, fs |-> make_ics(fs, row.booking_id, icsOk),
        resp |-> Ok("book", [booking_id |-> row.booking_id, price |-> row.price,
                             status |-> "confirmed",
                             ics_url |-> "/ics/" \o row.booking_id \o ".ics"])]

\* book(payload) run without interruption: the outcome [db, fs, resp]
book(db, fs, p, icsOk) ==
  LET chk == book_check(db, p)
  IN IF chk.done THEN [db |-> db, fs |-> fs, resp |-> chk.resp]
     ELSE book_write(db, fs, p, chk.start_min, chk.end_min, icsOk)

\* cancel that answers 404 for an id that is not in the table
cancel_Strict(db, booking_id) ==
  IF booking_id = ""
  THEN [db |-> db, resp |-> Err("cancel", 400, "booking_id required")]
  ELSE IF ~\E b \in db : b.booking_id = booking_id
  THEN [db |-> db, resp |-> Err("cancel", 404, "not found")]
  ELSE [db |-> UpdateCanceled(db, booking_id), resp |-> Ok("cancel", [ok |-> TRUE])]

cancel(db, booking_id) ==
  IF booking_id = ""
  THEN [db |-> db, resp |-> Err("cancel", 400, "booking_id required")]
  ELSE [db |-> UpdateCanceled(db, booking_id), resp |-> Ok("cancel", [ok |-> TRUE])]

slots(db, hall_id, date) ==
  IF hall_id = "" \/ date = ""
  THEN Err("slots", 400, "hall_id and date required")
  ELSE Ok("slots", [date |-> date, hall_id |-> hall_id,
                    slots |-> compute_slots(SelectBusy(db, hall_id, date))])

BookingView(r) ==
  [booking_id |-> r.booking_id, hall_id |-> r.hall_id, date |-> r.date,
   slot |-> min_to_range(r.start_min, 60), price |-> r.price]

\* the responses bookings(phone) may give: one per row order the query allows
bookings_of(db, phone) ==
  {Ok("bookings", [i \in 1..Len(rows) |-> BookingView(rows[i])]) :
     rows \in OrderedBy(SelectPhone(db, phone))}

----------------------------------------------------------------------------
(* Requests handled one at a time *)

NoLoc == [p |-> Payload("", "", <<>>, "", "", <<>>), start_min |-> 0, end_min |-> 0,
          resp |-> Err("none", 0, "")]

Init ==
  /\ bookings = {}
  /\ files = {}
  /\ resp = Err("none", 0, "")
  /\ pc = [t \in Threads |-> "idle"]
  /\ loc = [t \in Threads |-> NoLoc]
  /\ arg = {}
  /\ ret = <<>>

Book(p, icsOk) ==
  LET out == book(bookings, files, p, icsOk)
  IN /\ bookings' = out.db
     /\ files' = out.fs
     /\ resp' = out.resp
     /\ UNCHANGED <<pc, loc, arg, ret>>

Cancel(booking_id) ==
  LET out == cancel(bookings, booking_id)
  IN /\ bookings' = out.db
     /\ resp' = out.resp
     /\ UNCHANGED <<files, pc, loc, arg, ret>>

Slots(hall_id, date) ==
  /\ resp' = slots(bookings, hall_id, date)
  /\ UNCHANGED <<bookings, files, pc, loc, arg, ret>>

Bookings(phone) ==
  /\ resp' \in bookings_of(bookings, phone)
  /\ UNCHANGED <<bookings, files, pc, loc, arg, ret>>

Next ==
  \/ \E p \in BookPayloads : Book(p, TRUE)
  \/ \E id \in CancelIds : Cancel(id)
  \/ \E q \in SlotQueries : Slots(q[1], q[2])
  \/ \E ph \in PhoneQueries : Bookings(ph)

Spec == Init /\ [][Next]_vars

----------------------------------------------------------------------------
(* Properties of the handlers run one at a time *)

Elems(seq) == {seq[i] : i \in 1..Len(seq)}

GridStarts == {540 + 60 * k : k \in 0..11}

RowsWithId(db, id) == {b \in db : b.booking_id = id}

\* C2: a booking request with all required fields and a readable slot text
\* is answered 409 exactly when the table holds a confirmed booking of the
\* same hall and date that is closer than the buffer; a 409 leaves the
\* table as it was.
C2_ConflictExactly ==
  [][\A p \in BookPayloads :
       (resp'.op = "book" /\ Book(p, TRUE) /\ Required(p) /\ SlotStart[p.slot].ok) =>
         LET newStart == SlotStart[p.slot].v
             newEnd == newStart + 60
         IN /\ (resp'.code = 409) <=>
                 (\E b \in bookings :
                    /\ b.status = "confirmed"
                    /\ b.hall_id = p.hall_id
                    /\ b.date = p.date
                    /\ ~(newEnd + 15 <= b.start_min \/ newStart >= b.end_min + 15))
            /\ (resp'.code = 409 => bookings' = bookings)]_vars

\* a 409 was answered while the table holds a confirmed and a canceled row
C2_Witness ==
  /\ resp.op = "book" /\ resp.code = 409
  /\ \E b \in bookings : b.status = "confirmed"
  /\ \E b \in bookings : b.status = "canceled"

\* C3: booking again the hall, date and start hour of a canceled booking
\* (no confirmed booking in the way) succeeds and leaves one confirmed row
\* with that id carrying the new request's data.
C3_RebookAfterCancel ==
  [][\A p \in ValidPayloads :
       LET start == SlotStart[p.slot].v
           id == BookingId(p.date, p.hall_id, start)
       IN (/\ Book(p, TRUE)
           /\ \E b \in bookings : b.booking_id = id /\ b.status = "canceled"
           /\ ~\E b \in bookings :
                 /\ b.status = "confirmed" /\ b.hall_id = p.hall_id /\ b.date = p.date
                 /\ ~(start + 60 + 15 <= b.start_min \/ start >= b.end_min + 15))
          => /\ resp'.code = 200
             /\ resp'.body.status = "confirmed"
             /\ Cardinality(RowsWithId(bookings', id)) = 1
             /\ \A b \in RowsWithId(bookings', id) :
                  b.status = "confirmed" /\ b.phone = p.phone /\ b.start_min = start]_vars

\* C4: a booking id never leaves the table and a canceled booking stays
\* canceled.
C4_LifecycleMonotone ==
  [][\A b \in bookings :
       \E b2 \in bookings' :
         /\ b2.booking_id = b.booking_id
         /\ (b.status = "canceled" => b2.status = "canceled")]_vars

\* a booking of the id of a canceled row was attempted and the row is
\* still canceled
C4_Witness ==
  /\ resp.op = "book" /\ resp.detail = "IntegrityError"
  /\ \E b \in bookings : b.status = "canceled"

\* C5: canceling an id that is not in the table, or that is canceled
\* already, answers ok and changes no row.
C5_CancelLenient ==
  [][\A id \in CancelIds :
       (/\ Cancel(id)
        /\ id # ""
        /\ \A b \in bookings : b.booking_id = id => b.status = "canceled")
       => /\ resp'.op = "cancel" /\ resp'.code = 200 /\ resp'.body.ok
          /\ bookings' = bookings]_vars

\* a cancel was answered ok although every row of the table is confirmed:
\* its id was not in the table
C5_Witness ==
  /\ resp.op = "cancel" /\ resp.code = 200
  /\ bookings # {}
  /\ \A b \in bookings : b.status = "confirmed"

\* the range text of each grid slot and of the hours around the grid
GridRange == [S \in {480 + 60 * k : k \in 0..13} |-> min_to_range(S, 60)]

\* C6: a slot list for hall h and date d names neither the grid slot of a
\* confirmed booking of h and d nor its two grid neighbours, and names
\* every grid slot that no confirmed booking of h and d is within the
\* buffer of, whatever is booked for other halls and dates.
C6_BookedSlotHidden ==
  (resp.op = "slots" /\ resp.code = 200) =>
    LET mine == {b \in bookings : /\ b.status = "confirmed"
                                  /\ b.hall_id = resp.body.hall_id
                                  /\ b.date = resp.body.date}
    IN /\ \A b \in mine :
            b.start_min \in GridStarts =>
              \A S \in {b.start_min - 60, b.start_min, b.start_min + 60} :
                GridRange[S] \notin Elems(resp.body.slots)
       /\ \A S \in GridStarts :
            (\A b \in mine : S + 60 + 15 <= b.start_min \/ S >= b.end_min + 15)
            => GridRange[S] \in Elems(resp.body.slots)

\* a slot list was given for a hall and date that have a confirmed booking
\* on the grid, while another hall or date has a confirmed booking too
C6_Witness ==
  /\ resp.op = "slots" /\ resp.code = 200
  /\ \E b \in bookings :
       /\ b.status = "confirmed" /\ b.start_min \in GridStarts
       /\ b.hall_id = resp.body.hall_id /\ b.date = resp.body.date
  /\ \E b \in bookings :
       /\ b.status = "confirmed"
       /\ (b.hall_id # resp.body.hall_id \/ b.date # resp.body.date)

\* C8: the list for a phone holds exactly the confirmed bookings of that
\* phone, each once, by date and then by start time.
C8_PhoneListing ==
  [][\A ph \in PhoneQueries :
       Bookings(ph) =>
         LET want == {b \in bookings : b.phone = ph /\ b.status = "confirmed"}
             got == resp'.body
             RowOf(i) == CHOOSE b \in bookings : b.booking_id = got[i].booking_id
         IN /\ resp'.code = 200
            /\ Len(got) = Cardinality(want)
            /\ {got[i].booking_id : i \in 1..Len(got)} = {b.booking_id : b \in want}
            /\ \A i \in 1..Len(got) :
                 /\ got[i].hall_id = RowOf(i).hall_id
                 /\ got[i].date = RowOf(i).date
                 /\ got[i].price = RowOf(i).price
                 /\ got[i].slot = min_to_range(RowOf(i).start_min, 60)
            /\ \A i, j \in 1..Len(got) :
                 i < j =>
                   \/ DateKey(got[i].date) < DateKey(got[j].date)
                   \/ /\ got[i].date = got[j].date
                      /\ RowOf(i).start_min <= RowOf(j).start_min]_vars

\* a list of bookings of two dates was given while the table also holds a
\* canceled row of that phone and a confirmed row of another phone
C8_Witness ==
  /\ resp.op = "bookings" /\ Len(resp.body) >= 2
  /\ \E i, j \in 1..Len(resp.body) : resp.body[i].date # resp.body[j].date
  /\ \E b \in bookings, c \in bookings :
       /\ b.status = "canceled" /\ c.status = "confirmed" /\ b.phone = c.phone
       /\ \E i \in 1..Len(resp.body) : c.booking_id = resp.body[i].booking_id
  /\ \E b \in bookings :
       b.status = "confirmed" /\ \A i \in 1..Len(resp.body) : b.booking_id # resp.body[i].booking_id

\* C9: no operation changes the price, hall, date, start, end or add-ons
\* of a row; a successful booking answers the price it stored; cancel
\* changes the status of the row it names and nothing else.
C9_PriceSnapshot ==
  [][/\ \A b \in bookings :
          \E b2 \in bookings' :
            /\ b2.booking_id = b.booking_id
            /\ b2.price = b.price /\ b2.hall_id = b.hall_id /\ b2.date = b.date
            /\ b2.start_min = b.start_min /\ b2.end_min = b.end_min
            /\ b2.addons = b.addons
     /\ \A id \in CancelIds :
          Cancel(id) =>
            /\ Cardinality(bookings') = Cardinality(bookings)
            /\ \A b \in bookings :
                 IF b.booking_id = id
                 THEN [b EXCEPT !.status = "canceled"] \in bookings'
                 ELSE b \in bookings'
     /\ (resp'.op = "book" /\ resp'.code = 200) =>
          \E b \in bookings' :
            b.booking_id = resp'.body.booking_id /\ b.price = resp'.body.price]_vars

\* a row with add-ons was canceled beside a confirmed row
C9_Witness ==
  /\ resp.op = "cancel" /\ resp.code = 200
  /\ \E b \in bookings : b.status = "canceled" /\ b.addons # <<>>
  /\ \E b \in bookings : b.status = "confirmed"

\* C10: every row ends 60 minutes after it starts.
C10_FixedDuration == \A b \in bookings : b.end_min = b.start_min + 60

\* a row booked with the text 11:00-13:00
C10_Witness == \E b \in bookings : b.start_min = 660

----------------------------------------------------------------------------
(* The availability loop on its own: compute_slots on sets of busy         *)
(* intervals that keep the buffer between each other                       *)

MaxBusy == 2          \* busy intervals in one set

BusyIntervals == {<<480 + 15 * k, 480 + 15 * k + 60>> : k \in 0..52}

Apart(a, b) == a[2] + 15 <= b[1] \/ b[2] + 15 <= a[1]

RECURSIVE BusySetsUpTo(_)
BusySetsUpTo(n) ==
  IF n = 0 THEN {{}}
  ELSE LET prev == BusySetsUpTo(n - 1)
       IN prev \cup {S \cup {iv} : S \in prev, iv \in BusyIntervals}

BusySets ==
  {S \in BusySetsUpTo(MaxBusy) : \A a, b \in S : a # b => Apart(a, b)}

NotRun == <<"not run">>

InitSlots ==
  /\ bookings = {}
  /\ files = {}
  /\ resp = Err("none", 0, "")
  /\ pc = [t \in Threads |-> "idle"]
  /\ loc = [t \in Threads |-> NoLoc]
  /\ arg \in BusySets
  /\ ret = NotRun

ComputeSlots ==
  /\ ret = NotRun
  /\ ret' = compute_slots(arg)
  /\ UNCHANGED <<bookings, files, resp, pc, loc, arg>>

NextSlots == ComputeSlots

SpecSlots == InitSlots /\ [][NextSlots]_vars

\* C7: every slot compute_slots returns for busy intervals that keep the
\* buffer between each other is a grid slot [S, S+60) that keeps the buffer
\* to every busy interval [s, e): S + 60 + 15 <= s or S >= e + 15.
C7_SlotsKeepBuffer ==
  ret # NotRun =>
    \A i \in 1..Len(ret) :
      \E S \in GridStarts :
        /\ GridRange[S] = ret[i]
        /\ \A iv \in arg : S + 60 + 15 <= iv[1] \/ S >= iv[2] + 15

\* slots were computed beside two busy intervals, one of them off the grid
C7_Witness ==
  /\ ret # NotRun /\ Len(ret) > 0
  /\ Cardinality(arg) = 2
  /\ \E iv \in arg : iv[1] % 60 = 15

----------------------------------------------------------------------------
(* Requests handled by concurrent worker threads.  book() opens no         *)
(* transaction before its INSERT (sqlite3 begins one implicitly at the     *)
(* first INSERT or UPDATE), so the conflict SELECT is a step of its own    *)
(* and other requests may run between it and the INSERT and commit.        *)

ConcPayloads ==
  {Payload("A", "2024-06-01", s, Ann.name, Ann.phone, Ann.addons) : s \in SlotTexts}

ConcCancelIds ==
  {BookingId(p.date, p.hall_id, SlotStart[p.slot].v) : p \in ConcPayloads}

\* lines 170-194: validation, parse_slot and the conflict SELECT
BookStart(t, p) ==
  LET chk == book_check(bookings, p)
  IN /\ pc[t] = "idle"
     /\ IF chk.done
        THEN /\ resp' = chk.resp
             /\ pc' = pc
             /\ loc' = [loc EXCEPT ![t] = [p |-> p, start_min |-> 0, end_min |-> 0,
                                           resp |-> chk.resp]]
        ELSE /\ resp' = resp
             /\ pc' = [pc EXCEPT ![t] = "checked"]
             /\ loc' = [loc EXCEPT ![t] = [p |-> p, start_min |-> chk.start_min,
                                           end_min |-> chk.end_min,
                                           resp |-> Err("book", 0, "")]]
     /\ UNCHANGED <<bookings, files, arg, ret>>

\* lines 196-212: hall lookup, price, INSERT and commit, calendar file
BookFinish(t, icsOk) ==
  LET out == book_write(bookings, files, loc[t].p, loc[t].start_min, loc[t].end_min, icsOk)
  IN /\ pc[t] = "checked"
     /\ bookings' = out.db
     /\ files' = out.fs
     /\ resp' = out.resp
     /\ pc' = [pc EXCEPT ![t] = "idle"]
     /\ loc' = [loc EXCEPT ![t].resp = out.resp]
     /\ UNCHANGED <<arg, ret>>

NextConc ==
  \/ \E t \in Threads, p \in ConcPayloads : BookStart(t, p)
  \/ \E t \in Threads : BookFinish(t, TRUE)
  \/ \E id \in ConcCancelIds : Cancel(id)

SpecConc == Init /\ [][NextConc]_vars

\* C1: any two distinct confirmed bookings of one hall and date keep the
\* buffer: B1.end + 15 <= B2.start or B2.end + 15 <= B1.start.
C1_NoOverlap ==
  \A b1, b2 \in bookings :
    (/\ b1 # b2
     /\ b1.status = "confirmed" /\ b2.status = "confirmed"
     /\ b1.hall_id = b2.hall_id /\ b1.date = b2.date)
    => (b1.end_min + 15 <= b2.start_min \/ b2.end_min + 15 <= b1.start_min)

----------------------------------------------------------------------------
(* The pricing function on its own *)

PriceDates == {"2024-06-01", "2024-06-02", "2024-06-03", "2024-06-07"}

\* 16:59, 17:00, 18:00, 20:59, 21:00 and three hours outside prime time
PriceStarts == {540, 600, 1019, 1020, 1080, 1259, 1260, 1320}

PriceAddons == {<<>>, <<"Stoyki">>, <<"Nabor svet A", "Fon belyi">>, <<"Flash", "Stoyki">>}

PriceArgs ==
  {[hall |-> h, date |-> d, start_min |-> m, addons |-> AddonsD(a)] :
     h \in HALLS_SEED, d \in PriceDates, m \in PriceStarts, a \in PriceAddons}

InitPrice ==
  /\ bookings = {}
  /\ files = {}
  /\ resp = Err("none", 0, "")
  /\ pc = [t \in Threads |-> "idle"]
  /\ loc = [t \in Threads |-> NoLoc]
  /\ arg \in PriceArgs
  /\ ret = <<>>

ComputePrice ==
  /\ ret = <<>>
  /\ ret' = <<calc_price(arg.hall, arg.date, arg.start_min, arg.addons)>>
  /\ UNCHANGED <<bookings, files, resp, pc, loc, arg>>

NextPrice == ComputePrice

SpecPrice == InitPrice /\ [][NextPrice]_vars

\* the integer nearest to n / d (no quotient below is halfway)
Nearest(n, d) == CHOOSE k \in 0..(n \div d + 1) : 2 * (n - k * d) < d /\ 2 * (k * d - n) < d

\* C11: the price is p2 plus the add-on prices, where p1 is the base price,
\* on a Saturday or Sunday times the weekend coefficient and rounded, and p2
\* is p1, for a start hour in 17..20 times 1.3 and rounded; hall A on a
\* Saturday at 18:00 without add-ons costs 14300.
C11_PriceCompounds ==
  Len(ret) = 1 =>
    LET base == CASE arg.hall.id = "A" -> 10000 [] arg.hall.id = "B" -> 12000
                  [] arg.hall.id = "C" -> 15000
        coef == CASE arg.hall.id = "A" -> 110 [] arg.hall.id = "B" -> 115
                  [] arg.hall.id = "C" -> 120
        p1 == IF arg.date \in {"2024-06-01", "2024-06-02"}
              THEN Nearest(base * coef, 100) ELSE base
        p2 == IF 1020 <= arg.start_min /\ arg.start_min < 1260
              THEN Nearest(p1 * 13, 10) ELSE p1
        extra == CASE arg.addons = <<>> -> 0
                   [] Len(arg.addons) = 1 -> 1000
                   [] arg.addons[1].name = "Flash" -> 1000
                   [] OTHER -> 4500
    IN /\ ret[1] = p2 + extra
       /\ (arg.hall.id = "A" /\ arg.date = "2024-06-01" /\ arg.start_min = 1080
           /\ arg.addons = <<>>) => ret[1] = 14300

\* hall B was priced for a Sunday in prime time with add-ons
C11_Witness ==
  /\ Len(ret) = 1
  /\ arg.hall.id = "B" /\ arg.date = "2024-06-02" /\ arg.start_min = 1259
  /\ arg.addons # <<>>

----------------------------------------------------------------------------
(* The slot text round trip on its own *)

InitTrip ==
  /\ bookings = {}
  /\ files = {}
  /\ resp = Err("none", 0, "")
  /\ pc = [t \in Threads |-> "idle"]
  /\ loc = [t \in Threads |-> NoLoc]
  /\ arg \in 0..1439
  /\ ret = <<>>

RoundTrip ==
  /\ ret = <<>>
  /\ ret' = <<parse_slot(min_to_range(arg, 60))>>
  /\ UNCHANGED <<bookings, files, resp, pc, loc, arg>>

NextTrip == RoundTrip

SpecTrip == InitTrip /\ [][NextTrip]_vars

\* C12: the range text of every minute offset m of the day parses back to m.
C12_RoundTrip == Len(ret) = 1 => (ret[1].ok /\ ret[1].v = arg)

\* the text of an offset off the hour whose range ends after midnight
C12_Witness == Len(ret) = 1 /\ arg = 1425

----------------------------------------------------------------------------
(* Further properties of the handlers run one at a time *)

C14_BookingIdFormat ==
  /\ \A b \in bookings :
       LET h == b.start_min \div 60
           hh == IF h < 10 THEN "0" \o ToString(h) ELSE ToString(h)
       IN b.booking_id = "BK-" \o b.date \o "-" \o b.hall_id \o "-" \o hh \o "00"
  /\ \A b1, b2 \in bookings : b1.booking_id = b2.booking_id => b1 = b2
  /\ BookingId("2024-06-01", "A", 900) = "BK-2024-06-01-A-1500"

\* the table holds a booking that starts at 10:30 beside another one
C14_Witness ==
  /\ \E b \in bookings : b.start_min = 630 /\ b.booking_id = "BK-2024-06-01-A-1000"
  /\ Cardinality(bookings) >= 2

\* the start of the grid slot whose range text is txt
GridStartOf(txt) == CHOOSE S \in GridStarts : GridRange[S] = txt

\* C15: a slot list for hall h and date d holds exactly the grid slots that
\* keep the buffer to every confirmed booking of h and d, each once and in
\* ascending order, all 12 when there is none; the request leaves the table
\* as it was.
C15_SlotsExact ==
  [][/\ (resp'.op = "slots" /\ resp'.code = 200) =>
          LET got == resp'.body.slots
              busy == {b \in bookings' : /\ b.status = "confirmed"
                                          /\ b.hall_id = resp'.body.hall_id
                                          /\ b.date = resp'.body.date}
              free == {S \in GridStarts :
                         \A b \in busy : S + 60 + 15 <= b.start_min \/ S >= b.end_min + 15}
          IN /\ Len(got) = Cardinality(free)
             /\ \A i \in 1..Len(got) : \E S \in free : got[i] = GridRange[S]
             /\ \A i, j \in 1..Len(got) : i < j => GridStartOf(got[i]) < GridStartOf(got[j])
             /\ (busy = {} => Len(got) = 12)
     /\ resp'.op = "slots" => bookings' = bookings]_vars

\* a slot list shorter than the grid was given for a hall and date that
\* have a confirmed and a canceled booking
C15_Witness ==
  /\ resp.op = "slots" /\ resp.code = 200 /\ Len(resp.body.slots) < 12
  /\ \E b, c \in bookings :
       /\ b.status = "confirmed" /\ c.status = "canceled"
       /\ b.hall_id = resp.body.hall_id /\ b.date = resp.body.date
       /\ c.hall_id = resp.body.hall_id /\ c.date = resp.body.date
       /\ (c.start_min + 60 + 15 <= b.start_min \/ c.start_min >= b.end_min + 15)

----------------------------------------------------------------------------
(* Requests handled one at a time while the calendar directory may fail:   *)
(* open() or write() in make_ics may raise OSError                         *)

NextFault ==
  \/ \E p \in ConcPayloads, icsOk \in BOOLEAN : Book(p, icsOk)
  \/ \E id \in ConcCancelIds : Cancel(id)
  \/ \E q \in SlotQueries : Slots(q[1], q[2])

SpecFault == Init /\ [][NextFault]_vars

\* confirmed rows that have no calendar file
NoFile(db, fs) == {b \in db : b.status = "confirmed" /\ b.booking_id \notin fs}

\* C16: when the calendar file cannot be written the request is answered
\* with an error, yet its row is in the table, confirmed; the row stays
\* until it is canceled, a request within the buffer of it is answered 409
\* and no slot list names a grid slot within the buffer of it.
C16_ExportNotTransactional ==
  [][/\ (resp'.op = "book" /\ resp'.detail = "OSError") =>
          /\ resp'.code = 500
          /\ \E b \in bookings' \ bookings :
               b.status = "confirmed" /\ b.booking_id \notin files'
     /\ \A b \in NoFile(bookings, files) : resp'.op = "cancel" \/ b \in bookings'
     /\ \A p \in ConcPayloads :
          (/\ resp'.op = "book"
           /\ \E icsOk \in BOOLEAN : Book(p, icsOk)
           /\ \E b \in NoFile(bookings, files) :
                /\ b.hall_id = p.hall_id /\ b.date = p.date
                /\ ~(SlotStart[p.slot].v + 60 + 15 <= b.start_min
                     \/ SlotStart[p.slot].v >= b.end_min + 15))
          => resp'.code = 409
     /\ (resp'.op = "slots" /\ resp'.code = 200) =>
          \A b \in NoFile(bookings', files') :
            (b.hall_id = resp'.body.hall_id /\ b.date = resp'.body.date) =>
              \A S \in GridStarts :
                ~(S + 60 + 15 <= b.start_min \/ S >= b.end_min + 15)
                => GridRange[S] \notin Elems(resp'.body.slots)]_vars

\* a slot list was given while a confirmed booking of that hall and date
\* has no calendar file
C16_Witness ==
  /\ resp.op = "slots" /\ resp.code = 200 /\ Len(resp.body.slots) < 12
  /\ \E b \in NoFile(bookings, files) :
       b.hall_id = resp.body.hall_id /\ b.date = resp.body.date

----------------------------------------------------------------------------
(* Availability against reservation, and the grid *)

\* C17: a booking request for an existing hall and a grid slot succeeds
\* exactly when the slot list of that hall and date names the slot.
C17_ListedIffBookable ==
  [][\A p \in ValidPayloads :
       (/\ resp'.op = "book"
        /\ Book(p, TRUE)
        /\ SlotStart[p.slot].v \in GridStarts)
       => ((resp'.code = 200 /\ resp'.body.status = "confirmed")
           <=> GridRange[SlotStart[p.slot].v]
                 \in Elems(slots(bookings, p.hall_id, p.date).body.slots))]_vars

\* C18: every confirmed booking starts on the hour within 09:00-20:00.
C18_OnGrid ==
  \A b \in bookings :
    b.status = "confirmed" =>
      (b.start_min % 60 = 0 /\ 540 <= b.start_min /\ b.start_min + 60 <= 1260)

----------------------------------------------------------------------------
(* Concurrent requests for one booking id *)

\* C19: no two threads hold a success response for the same booking id,
\* and the table holds at most one row per id.
C19_OneWinner ==
  /\ \A t1, t2 \in Threads :
       (/\ t1 # t2
        /\ loc[t1].resp.code = 200 /\ loc[t2].resp.code = 200)
       => loc[t1].resp.body.booking_id # loc[t2].resp.body.booking_id
  /\ \A b1, b2 \in bookings : b1.booking_id = b2.booking_id => b1 = b2

\* two requests for the same hall, date and slot both passed the conflict
\* check (no row is canceled, so the id was free when the loser was
\* checked); one succeeded and the other met the primary key
C19_Witness ==
  \E t1, t2 \in Threads :
    /\ t1 # t2
    /\ pc[t1] = "idle" /\ pc[t2] = "idle"
    /\ loc[t1].p = loc[t2].p
    /\ loc[t1].resp.code = 200
    /\ loc[t2].resp.detail = "IntegrityError"
    /\ Cardinality(RowsWithId(bookings, loc[t1].resp.body.booking_id)) = 1
    /\ \A b \in bookings : b.status = "confirmed"

====
